---------------------------- MODULE Spec2Model ----------------------------
(***************************************************************************)
(* Model of the token pipeline of src/main.py: the three source adapters   *)
(* (fetch_binance, fetch_coingecko, fetch_dexscreener), the filters        *)
(* (token_filter, is_new_crypto, is_alpha) and the three alert runs        *)
(* (check_tokens, new_crypto_alert, alpha_alert).                          *)
(*                                                                         *)
(* Units.  TLC integers are 32 bits wide, and the supply caps of           *)
(* token_filter (10^9, 10^10) are not, so quantities are scaled:           *)
(*   price   : millionths of a dollar   (0.05 is 50000, 0.050001 is 50001) *)
(*   supply  : thousands of tokens      (10^9 is 1000000)                  *)
(*   change  : percent                                                     *)
(*   time    : days; DexScreener's pairCreatedAt is in thousandths of the  *)
(*             clock unit, as milliseconds are of a second                 *)
(*                                                                         *)
(* Python's None is the empty set and a present value v is {v}.            *)
(***************************************************************************)
EXTENDS Integers, Sequences, FiniteSets, TLC

VARIABLES
    token,      \* SpecFilter: the token handed to the filters
    verdict,    \* SpecFilter: what token_filter / is_new_crypto / is_alpha said
    fAdapter,   \* SpecFetch: the adapter that was called ("none" before)
    fResp,      \* SpecFetch: the response it received
    fOut,       \* SpecFetch: what the adapter returned
    handler,    \* Spec: the alert function running ("idle" before)
    status,     \* Spec: per adapter, "unused" | "pending" | "running" | "returned"
    resp,       \* Spec: per adapter, the response its request received
    fetched,    \* Spec: per adapter, the list it returned
    results,    \* Spec: the alert list (results / fresh / alphas)
    outcome     \* Spec: "none" | "message" | "noresults" | "exception"

vars == <<token, verdict, fAdapter, fResp, fOut,
          handler, status, resp, fetched, results, outcome>>

-----------------------------------------------------------------------------
(* Optional values *)

None == {}
Some(v) == {v}
Get(o) == CHOOSE v \in o : TRUE

\* Python truthiness of an optional number: None and 0 are falsy.
TruthyNum(o) == o # None /\ Get(o) # 0

AbsVal(n) == IF n < 0 THEN -n ELSE n

-----------------------------------------------------------------------------
(* Program constants *)

TierOneSupplyCap == 1000000
TierTwoSupplyCap == 10000000
TierOneLow == 20000
TierOneHigh == 50000
TierTwoLow == 2000
TierTwoHigh == 5000
VolatilityThreshold == 5
RecentDays == 60
FreshDays == 7

\* datetime.utcnow(), as a day number
Now == 100

-----------------------------------------------------------------------------
(* Filters *)

\* token_filter written with the "accept unknown supply if cheap" policy
token_filter_permissive(t) ==
    IF TruthyNum(t.supply)
    THEN \/ Get(t.supply) <= TierOneSupplyCap /\ TierOneLow <= t.price /\ t.price <= TierOneHigh
         \/ Get(t.supply) <= TierTwoSupplyCap /\ TierTwoLow <= t.price /\ t.price <= TierTwoHigh
    ELSE t.price <= TierOneHigh

token_filter(t) ==
    IF TruthyNum(t.supply)
    THEN \/ Get(t.supply) <= TierOneSupplyCap /\ TierOneLow <= t.price /\ t.price <= TierOneHigh
         \/ Get(t.supply) <= TierTwoSupplyCap /\ TierTwoLow <= t.price /\ t.price <= TierTwoHigh
    ELSE FALSE

is_new_crypto(t) ==
    IF t.listed = None
    THEN FALSE
    ELSE Now - Get(t.listed) <= RecentDays /\ token_filter(t)

\* is_alpha that also asks for the price band
is_alpha_banded(t) ==
    IF t.listed = None
    THEN FALSE
    ELSE Now - Get(t.listed) <= FreshDays /\ token_filter(t)

is_alpha(t) ==
    IF t.listed = None
    THEN FALSE
    ELSE Now - Get(t.listed) <= FreshDays

\* the test of check_tokens without abs()
is_volatile_signed(t) == t.change >= VolatilityThreshold /\ token_filter(t)

\* the test of the loop of check_tokens
is_volatile(t) == AbsVal(t.change) >= VolatilityThreshold /\ token_filter(t)

-----------------------------------------------------------------------------
(* Raw JSON values, as the adapters read them *)

\* A JSON field that should hold a number: missing (or null), a number (or a
\* numeric string), or a string float() cannot parse.
Absent == [k |-> "absent", v |-> 0]
Num(n) == [k |-> "num", v |-> n]
Bad == [k |-> "str", v |-> 0]

\* A JSON field that should hold an ISO date: missing, a date (its day
\* number), or a string datetime.fromisoformat() cannot parse.
Iso(d) == [k |-> "iso", v |-> d]

\* A missing "symbol" key
AbsentSym == "<absent>"

\* str.upper() on the symbols of the model
upper(s) == CASE s = "abc" -> "ABC"
              [] s = "Abc" -> "ABC"
              [] s = "xyz" -> "XYZ"
              [] OTHER -> s

\* x.get("symbol", "UNK")
SymbolOr(s) == IF s = AbsentSym THEN "UNK" ELSE s

\* float(v or 0): whether it raises ValueError, and its value otherwise
FloatRaises(f) == f.k = "str"
FloatOrZero(f) == IF f.k = "num" THEN f.v ELSE 0

\* What a call returns: a list, or an exception that leaves the function
Returned(list) == [exc |-> FALSE, val |-> list]
Raised == [exc |-> TRUE, val |-> <<>>]

\* A response: how the request ended, and the items of a well-typed body
Response(kind, items) == [k |-> kind, items |-> items]
RequestFailed(r) == r.k \in {"network", "timeout"}

-----------------------------------------------------------------------------
(* Source adapters *)

BinanceToken(x) ==
    [symbol |-> SymbolOr(x.symbol),
     price  |-> FloatOrZero(x.price),
     change |-> FloatOrZero(x.change),
     supply |-> None,
     listed |-> None]

\* fetch_binance without the outer try/except
fetch_binance_unguarded(r) ==
    IF RequestFailed(r) THEN Raised
    ELSE IF r.k = "not_json" THEN Returned(<<>>)
    ELSE IF r.k = "wrong_type" THEN Returned(<<>>)
    ELSE IF \E i \in 1..Len(r.items) :
               FloatRaises(r.items[i].price) \/ FloatRaises(r.items[i].change)
         THEN Raised
         ELSE Returned([i \in 1..Len(r.items) |-> BinanceToken(r.items[i])])

fetch_binance(r) ==
    IF RequestFailed(r) THEN Returned(<<>>)
    ELSE IF r.k = "not_json" THEN Returned(<<>>)
    ELSE IF r.k = "wrong_type" THEN Returned(<<>>)
    ELSE IF \E i \in 1..Len(r.items) :
               FloatRaises(r.items[i].price) \/ FloatRaises(r.items[i].change)
         THEN Returned(<<>>)
         ELSE Returned([i \in 1..Len(r.items) |-> BinanceToken(r.items[i])])

\* x.get("atl_date") or x.get("ath_date") or x.get("last_updated")
ListedStr(x) ==
    IF x.atl.k # "absent" THEN x.atl
    ELSE IF x.ath.k # "absent" THEN x.ath
    ELSE x.upd

\* datetime.fromisoformat(...) inside its own try/except
ParseListed(s) == IF s.k = "iso" THEN Some(s.v) ELSE None

\* x.get("max_supply") or 0
SupplyOrZero(f) == IF f.k = "num" THEN Some(f.v) ELSE Some(0)

CoingeckoToken(x) ==
    [symbol |-> upper(SymbolOr(x.symbol)),
     price  |-> FloatOrZero(x.price),
     change |-> FloatOrZero(x.change),
     supply |-> SupplyOrZero(x.supply),
     listed |-> ParseListed(ListedStr(x))]

fetch_coingecko(r) ==
    IF RequestFailed(r) THEN Returned(<<>>)
    ELSE IF r.k = "not_json" THEN Returned(<<>>)
    ELSE IF r.k = "wrong_type" THEN Returned(<<>>)
    ELSE IF \E i \in 1..Len(r.items) :
               FloatRaises(r.items[i].price) \/ FloatRaises(r.items[i].change)
         THEN Returned(<<>>)
         ELSE Returned([i \in 1..Len(r.items) |-> CoingeckoToken(r.items[i])])

\* datetime.utcfromtimestamp(listed // 1000) if listed else None
CreatedRaises(f) == f.k = "str"
CreatedAt(f) == IF f.k = "num" /\ f.v # 0 THEN Some(f.v \div 1000) ELSE None

DexToken(p) ==
    [symbol |-> SymbolOr(p.symbol),
     price  |-> FloatOrZero(p.price),
     change |-> FloatOrZero(p.change),
     supply |-> None,
     listed |-> CreatedAt(p.created)]

fetch_dexscreener(r) ==
    IF RequestFailed(r) THEN Returned(<<>>)
    ELSE IF r.k = "not_json" THEN Returned(<<>>)
    ELSE IF r.k = "wrong_type" THEN Returned(<<>>)
    ELSE IF r.k = "pairs_not_list" THEN Returned(<<>>)
    ELSE IF \E i \in 1..Len(r.items) :
               \/ CreatedRaises(r.items[i].created)
               \/ FloatRaises(r.items[i].price)
               \/ FloatRaises(r.items[i].change)
         THEN Returned(<<>>)
         ELSE Returned([i \in 1..Len(r.items) |-> DexToken(r.items[i])])

Adapters == {"binance", "coingecko", "dexscreener"}

fetch(a, r) ==
    CASE a = "binance" -> fetch_binance(r)
      [] a = "coingecko" -> fetch_coingecko(r)
      [] a = "dexscreener" -> fetch_dexscreener(r)

-----------------------------------------------------------------------------
(* Bounds and input domains *)

MaxFetchItems == 2
MaxBinanceItems == 1
MaxCoingeckoItems == 2
MaxDexItems == 1

SeqsUpTo(S, n) == UNION {[1..m -> S] : m \in 0..n}

\* Tokens handed to the filters: every band edge, both supply caps, unknown
\* and zero supply, both age windows, unknown age.
FilterPrices == {0, TierTwoLow - 1, TierTwoLow, TierTwoHigh, TierTwoHigh + 1,
                 TierOneLow - 1, TierOneLow, 30000, TierOneHigh, TierOneHigh + 1,
                 1200000}
FilterChanges == {-12, -VolatilityThreshold, -4, 0, 4, VolatilityThreshold}
FilterSupplies == {None, Some(0), Some(500000),
                   Some(TierOneSupplyCap), Some(TierOneSupplyCap + 1),
                   Some(TierTwoSupplyCap), Some(TierTwoSupplyCap + 1)}
FilterListed == {None, Some(Now - 3), Some(Now - FreshDays), Some(Now - FreshDays - 1),
                 Some(Now - 10), Some(Now - RecentDays), Some(Now - RecentDays - 1)}
TokenDomain ==
    [symbol : {"ABC"}, price : FilterPrices, change : FilterChanges,
     supply : FilterSupplies, listed : FilterListed]

NoToken == [symbol |-> "UNK", price |-> 0, change |-> 0, supply |-> None, listed |-> None]
NoVerdict == [done |-> FALSE, band |-> FALSE, volatile |-> FALSE,
              recent |-> FALSE, alpha |-> FALSE]

FailureKinds == {"network", "timeout", "not_json", "wrong_type"}
DexFailureKinds == FailureKinds \cup {"pairs_not_list"}
Failures(kinds) == {Response(k, <<>>) : k \in kinds}
OkResponses(items, n) == {Response("ok", q) : q \in SeqsUpTo(items, n)}

\* Bodies are well-typed JSON: a numeric field is missing, a number (or numeric
\* string) or a string that is no number; max_supply is a number or null; a
\* CoinGecko date is missing, a UTC date in the "...Z" form (parsed to a naive
\* datetime) or a string that is no date; pairCreatedAt is missing, an integer
\* or a string.
\* Responses given to one adapter called alone
FetchBinanceItems ==
    [symbol : {AbsentSym, "abc"}, price : {Absent, Num(30000), Bad},
     change : {Absent, Num(12), Bad}]
FetchCoingeckoItems ==
    [symbol : {"abc", "xyz"}, price : {Num(30000), Bad}, change : {Num(12), Bad},
     supply : {Absent, Num(0), Num(500000)},
     atl : {Absent, Iso(Now - 10), Bad}, ath : {Absent, Iso(Now - 3)},
     upd : {Absent, Iso(Now)}]
FetchDexItems ==
    [symbol : {AbsentSym, "abc"}, price : {Num(30000), Bad}, change : {Num(12)},
     created : {Absent, Num(0), Num((Now - 3) * 1000 + 500), Bad}]

FetchResponses(a) ==
    CASE a = "binance" ->
            Failures(FailureKinds) \cup OkResponses(FetchBinanceItems, MaxFetchItems)
      [] a = "coingecko" ->
            Failures(FailureKinds) \cup OkResponses(FetchCoingeckoItems, MaxFetchItems)
      [] a = "dexscreener" ->
            Failures(DexFailureKinds) \cup OkResponses(FetchDexItems, MaxFetchItems)

\* Responses given to the adapters within a run
RunBinanceItems ==
    [symbol : {"abc"}, price : {Num(30000)}, change : {Num(12)}]
RunCoingeckoItems ==
    [symbol : {"abc", "xyz"}, price : {Num(30000)},
     change : {Num(-VolatilityThreshold), Num(4)},
     supply : {Absent, Num(500000)},
     atl : {Absent, Iso(Now - 3)}, ath : {Absent}, upd : {Absent}]
RunDexItems ==
    [symbol : {"abc"}, price : {Num(30000)}, change : {Num(12)},
     created : {Absent, Num((Now - 3) * 1000), Bad}]

RunResponses(a) ==
    CASE a = "binance" ->
            Failures(FailureKinds) \cup OkResponses(RunBinanceItems, MaxBinanceItems)
      [] a = "coingecko" ->
            Failures(FailureKinds) \cup OkResponses(RunCoingeckoItems, MaxCoingeckoItems)
      [] a = "dexscreener" ->
            Failures(DexFailureKinds) \cup OkResponses(RunDexItems, MaxDexItems)

NoResponse == Response("none", <<>>)

-----------------------------------------------------------------------------
(* The filters applied to one token *)

FilterIdle == token = NoToken /\ verdict = NoVerdict
FetchIdle == fAdapter = "none" /\ fResp = NoResponse /\ fOut = Returned(<<>>)
RunIdle ==
    /\ handler = "idle"
    /\ status = [a \in Adapters |-> "unused"]
    /\ resp = [a \in Adapters |-> NoResponse]
    /\ fetched = [a \in Adapters |-> <<>>]
    /\ results = <<>>
    /\ outcome = "none"

InitFilter == token \in TokenDomain /\ verdict = NoVerdict /\ FetchIdle /\ RunIdle

Classify ==
    /\ ~verdict.done
    /\ verdict' = [done |-> TRUE,
                   band |-> token_filter(token),
                   volatile |-> is_volatile(token),
                   recent |-> is_new_crypto(token),
                   alpha |-> is_alpha(token)]
    /\ UNCHANGED <<token, fAdapter, fResp, fOut,
                   handler, status, resp, fetched, results, outcome>>

NextFilter == Classify

SpecFilter == InitFilter /\ [][NextFilter]_vars

-----------------------------------------------------------------------------
(* One adapter called alone *)

InitFetch == FilterIdle /\ FetchIdle /\ RunIdle

CallAdapter(a) ==
    /\ fAdapter = "none"
    /\ \E r \in FetchResponses(a) :
          /\ fAdapter' = a
          /\ fResp' = r
          /\ fOut' = fetch(a, r)
    /\ UNCHANGED <<token, verdict, handler, status, resp, fetched, results, outcome>>

NextFetch == \E a \in Adapters : CallAdapter(a)

SpecFetch == InitFetch /\ [][NextFetch]_vars

-----------------------------------------------------------------------------
(* The alert runs *)

Handlers == {"check_tokens", "new_crypto", "alpha"}

\* The adapters a handler calls, in call order
Calls(h) ==
    IF h = "check_tokens"
    THEN <<"binance", "coingecko", "dexscreener">>
    ELSE <<"coingecko", "dexscreener">>

Uses(h) == {Calls(h)[i] : i \in 1..Len(Calls(h))}
Position(h, a) == CHOOSE i \in 1..Len(Calls(h)) : Calls(h)[i] = a

\* fetch_binance() + fetch_coingecko() + fetch_dexscreener()
RECURSIVE Concat(_, _, _)
Concat(f, order, i) ==
    IF i > Len(order) THEN <<>> ELSE f[order[i]] \o Concat(f, order, i + 1)

Selected(h, data) ==
    CASE h = "check_tokens" -> SelectSeq(data, is_volatile)
      [] h = "new_crypto" -> SelectSeq(data, is_new_crypto)
      [] h = "alpha" -> SelectSeq(data, is_alpha)

Init == FilterIdle /\ FetchIdle /\ RunIdle

\* button_handler dispatches to an alert function
Start(h) ==
    /\ handler = "idle"
    /\ handler' = h
    /\ status' = [a \in Adapters |-> IF a \in Uses(h) THEN "pending" ELSE "unused"]
    /\ UNCHANGED <<token, verdict, fAdapter, fResp, fOut,
                   resp, fetched, results, outcome>>

\* The alert function calls its next adapter: the request is sent
Call(a) ==
    /\ handler \in Handlers
    /\ outcome = "none"
    /\ status[a] = "pending"
    /\ \A b \in Uses(handler) :
          Position(handler, b) < Position(handler, a) => status[b] = "returned"
    /\ status' = [status EXCEPT ![a] = "running"]
    /\ UNCHANGED <<token, verdict, fAdapter, fResp, fOut,
                   handler, resp, fetched, results, outcome>>

\* The request ends (a body, an error or the 10 s timeout) and the adapter returns
Return(a) ==
    /\ status[a] = "running"
    /\ \E r \in RunResponses(a) :
          LET out == fetch(a, r) IN
          /\ resp' = [resp EXCEPT ![a] = r]
          /\ status' = [status EXCEPT ![a] = "returned"]
          /\ IF out.exc
             THEN outcome' = "exception" /\ UNCHANGED fetched
             ELSE fetched' = [fetched EXCEPT ![a] = out.val] /\ UNCHANGED outcome
    /\ UNCHANGED <<token, verdict, fAdapter, fResp, fOut, handler, results>>

\* The filter loop and the message
Finish ==
    /\ handler \in Handlers
    /\ outcome = "none"
    /\ \A a \in Uses(handler) : status[a] = "returned"
    /\ results' = Selected(handler, Concat(fetched, Calls(handler), 1))
    /\ outcome' = IF results' = <<>> THEN "noresults" ELSE "message"
    /\ UNCHANGED <<token, verdict, fAdapter, fResp, fOut,
                   handler, status, resp, fetched>>

Next ==
    \/ \E h \in Handlers : Start(h)
    \/ \E a \in Adapters : Call(a)
    \/ \E a \in Adapters : Return(a)
    \/ Finish

Spec == Init /\ [][Next]_vars

Finished == handler \in Handlers /\ outcome \in {"message", "noresults"}

-----------------------------------------------------------------------------
(* Properties *)

InSeq(t, q) == \E i \in 1..Len(q) : q[i] = t
Fetched == Concat(fetched, Calls(handler), 1)

NumbersParse(a, x) == ~FloatRaises(x.price) /\ ~FloatRaises(x.change)
DatesParse(a, x) == a = "dexscreener" => ~CreatedRaises(x.created)

\* C1: the alert list built by check_tokens (and by new_crypto_alert) holds at
\* most one entry per case-normalized symbol.
C1_OneEntryPerSymbol ==
    (Finished /\ handler \in {"check_tokens", "new_crypto"}) =>
        \A i, j \in 1..Len(results) :
            i < j => upper(results[i].symbol) # upper(results[j].symbol)

\* C2: a token whose supply is None fails token_filter, and so is neither
\* Volatile nor RecentListing, whatever its price, change and listing date.
C2_UnknownSupplyRejected ==
    (verdict.done /\ token.supply = None) =>
        ~verdict.band /\ ~verdict.volatile /\ ~verdict.recent

C2_Witness ==
    /\ verdict.done
    /\ token.supply = None
    /\ token.price = 30000
    /\ token.change = -12
    /\ token.listed = Some(Now - 3)

\* C3: token_filter is true exactly when the supply is known and either the
\* supply is at most the tier-one cap with the price in [0.02, 0.05], or the
\* supply is at most the tier-two cap with the price in [0.002, 0.005], all
\* bounds inclusive.
C3_BandInclusive ==
    verdict.done =>
        (verdict.band <=>
            /\ token.supply # None
            /\ \/ /\ Get(token.supply) <= TierOneSupplyCap
                  /\ TierOneLow <= token.price /\ token.price <= TierOneHigh
               \/ /\ Get(token.supply) <= TierTwoSupplyCap
                  /\ TierTwoLow <= token.price /\ token.price <= TierTwoHigh)

\* C4: check_tokens reports a fetched token if and only if it passes
\* token_filter and the absolute value of its change is at least 5.
C4_VolatileIff ==
    (Finished /\ handler = "check_tokens") =>
        LET all == Fetched
            Meets(t) == /\ token_filter(t)
                        /\ \/ t.change >= VolatilityThreshold
                           \/ t.change <= -VolatilityThreshold
        IN /\ \A i \in 1..Len(results) :
                 Meets(results[i]) /\ InSeq(results[i], all)
           /\ \A i \in 1..Len(all) :
                 Meets(all[i]) => InSeq(all[i], results)

C4_Witness ==
    /\ Finished
    /\ handler = "check_tokens"
    /\ \E i \in 1..Len(results) : results[i].change = -VolatilityThreshold
    /\ LET all == Fetched
       IN \E i \in 1..Len(all) :
             /\ token_filter(all[i])
             /\ all[i].change = 4
             /\ ~InSeq(all[i], results)

\* C5: is_alpha tags a token if and only if its listing date is known and its
\* age is at most 7 days, whatever its price and supply; a token listed 3 days
\* ago with supply None and price 1.20 is tagged fresh and is neither Volatile
\* nor RecentListing.
C5_AlphaAgeOnly ==
    verdict.done =>
        /\ verdict.alpha <=>
              (token.listed # None /\ Now - Get(token.listed) <= FreshDays)
        /\ (token.listed = Some(Now - 3) /\ token.supply = None /\ token.price = 1200000)
              => (verdict.alpha /\ ~verdict.volatile /\ ~verdict.recent)

C5_Witness ==
    /\ verdict.done
    /\ token.listed = Some(Now - 3)
    /\ token.supply = None
    /\ token.price = 1200000
    /\ verdict.alpha

\* C6: when an item of a Binance or CoinGecko response has an unparsable price
\* or change, the adapter still returns one token per item, with the
\* unparsable field 0 and every parsable field kept.
C6_MalformedNumberDefaulted ==
    (fAdapter \in {"binance", "coingecko"} /\ fResp.k = "ok") =>
        /\ Len(fOut.val) = Len(fResp.items)
        /\ \A i \in 1..Len(fResp.items) :
              /\ fOut.val[i].price = FloatOrZero(fResp.items[i].price)
              /\ fOut.val[i].change = FloatOrZero(fResp.items[i].change)

\* C7: whichever adapters fail (network error, timeout, body that is not JSON,
\* wrong top-level type), each of them returns an empty list, no exception
\* leaves the run, and the run reports the qualifying tokens that the other
\* adapters returned, or "no results" when there are none.
C7_FailuresRecovered ==
    /\ outcome # "exception"
    /\ \A a \in Adapters :
          status[a] = "returned" =>
              IF resp[a].k # "ok"
              THEN fetched[a] = <<>>
              ELSE (\A i \in 1..Len(resp[a].items) :
                        /\ NumbersParse(a, resp[a].items[i])
                        /\ DatesParse(a, resp[a].items[i]))
                   => Len(fetched[a]) = Len(resp[a].items)
    /\ Finished =>
          /\ outcome = "noresults" <=> results = <<>>
          /\ \A a \in Uses(handler) : \A i \in 1..Len(fetched[a]) :
                LET t == fetched[a][i]
                IN InSeq(t, results) <=>
                      CASE handler = "check_tokens" -> is_volatile(t)
                        [] handler = "new_crypto" -> is_new_crypto(t)
                        [] handler = "alpha" -> is_alpha(t)
          /\ (\A a \in Uses(handler) : fetched[a] = <<>>) => outcome = "noresults"

C7_Witness ==
    /\ Finished
    /\ handler = "check_tokens"
    /\ resp["binance"].k = "timeout"
    /\ resp["dexscreener"].k = "not_json"
    /\ resp["coingecko"].k = "ok"
    /\ outcome = "message"

\* C8: within a run no adapter waits for another adapter's call: while one
\* adapter's call is in flight, every other adapter of the run has been called.
C8_AdaptersConcurrent ==
    \A a, b \in Adapters : status[a] = "running" => status[b] # "pending"

\* C9: when an item's listing timestamp is absent or cannot be parsed, the
\* adapter still returns one token per item, that item's token has listed =
\* None, and it is tagged neither RecentListing nor fresh.
C9_UnknownListingKept ==
    ( /\ fAdapter \in {"coingecko", "dexscreener"}
      /\ fResp.k = "ok"
      /\ \A i \in 1..Len(fResp.items) : NumbersParse(fAdapter, fResp.items[i]) )
    =>
        /\ Len(fOut.val) = Len(fResp.items)
        /\ \A i \in 1..Len(fResp.items) :
              LET x == fResp.items[i]
                  unknown == IF fAdapter = "coingecko"
                             THEN ListedStr(x).k # "iso"
                             ELSE x.created.k # "num"
              IN unknown =>
                    /\ fOut.val[i].listed = None
                    /\ ~is_alpha(fOut.val[i])
                    /\ ~is_new_crypto(fOut.val[i])

\* C10: a CoinGecko item with no max-supply data yields a token whose supply
\* is None, and a token's supply is 0 only when the source reported 0.
C10_UnknownSupplyDistinct ==
    ( /\ fAdapter = "coingecko"
      /\ fResp.k = "ok"
      /\ \A i \in 1..Len(fResp.items) : NumbersParse(fAdapter, fResp.items[i]) )
    =>
        \A i \in 1..Len(fResp.items) :
            /\ fResp.items[i].supply = Absent => fOut.val[i].supply = None
            /\ fOut.val[i].supply = Some(0) => fResp.items[i].supply = Num(0)

=============================================================================
